---- MODULE Spec2Model ----
(***************************************************************************)
(* Model of src/app.py: a Streamlit dashboard script.  Streamlit executes  *)
(* the whole script top to bottom on every interaction; one execution is   *)
(* one action of this model.  The script's namespace is fresh in every     *)
(* execution, so the names a run binds are kept in the variable `locals`   *)
(* (a function from the name to its value), rebuilt by every action.       *)
(*                                                                         *)
(* Tables (pandas DataFrames) are sequences of records, one record per     *)
(* row.  Raw cells are modelled by their text; None stands for a cell that *)
(* pandas holds as NaN/None, NaT for a missing timestamp.  Calendar days   *)
(* are day ordinals (1 = 2024-01-01).                                       *)
(***************************************************************************)
EXTENDS Integers, Sequences, FiniteSets, TLC

VARIABLES
    page,       \* the entry selected in the sidebar selectbox
    outcome,    \* how the last execution of the script ended
    sheet,      \* records of the tender-tracking spreadsheet (sheet1)
    workbook,   \* worksheets of the mail-tracking spreadsheet
    mailgun,    \* answers of the Mailgun statistics endpoint to the last execution
    report,     \* rows of the analytics report for the selected range
    ads,        \* insights of the ads platform for the selected range
    crm,        \* leads and posted invoices read from the CRM
    locals      \* the names bound by the last execution of the script

vars == <<page, outcome, sheet, workbook, mailgun, report, ads, crm, locals>>

(***************************************************************************)
(* Bounds of the model.                                                    *)
(***************************************************************************)
MaxRows == 2        \* rows of the tender-tracking sheet
MaxMailRows == 1    \* rows of one worksheet of the mail-tracking spreadsheet
MaxGARows == 2      \* rows of the analytics report
MaxAds == 2         \* insights of the ads platform
MaxLeads == 2       \* leads of the CRM
MaxInvoices == 2    \* posted invoices of the CRM

(***************************************************************************)
(* Cell values.                                                            *)
(***************************************************************************)
None == "<None>"
NaT  == 0          \* the missing timestamp; no day has this ordinal

\* Date texts pandas parses, with the calendar day each denotes.
\* The spreadsheets write a day as 2024-01-01, the analytics report as 20240101.
DateText == {"2024-01-01", "2024-01-02", "2024-01-03",
             "20240101", "20240102", "20240103"}
DayOf(s) == CASE s \in {"2024-01-01", "20240101"} -> 1
              [] s \in {"2024-01-02", "20240102"} -> 2
              [] s \in {"2024-01-03", "20240103"} -> 3
Days == {DayOf(s) : s \in DateText}

\* Number texts pandas parses, with their values.
NumText == {"0", "1", "2", "3"}
NumOf(s) == CASE s = "0" -> 0
              [] s = "1" -> 1
              [] s = "2" -> 2
              [] s = "3" -> 3

(***************************************************************************)
(* pandas helpers.                                                         *)
(***************************************************************************)
\* df[mask]: the rows whose mask entry is True, in the order of df.
RECURSIVE BoolIndex(_, _)
BoolIndex(df, mask) ==
    IF df = <<>> THEN <<>>
    ELSE (IF Head(mask) THEN <<Head(df)>> ELSE <<>>)
         \o BoolIndex(Tail(df), Tail(mask))

\* Series.unique(): the distinct values of a column in order of first appearance.
RECURSIVE unique(_)
unique(col) ==
    IF col = <<>> THEN <<>>
    ELSE LET u == unique(SubSeq(col, 1, Len(col) - 1))
             x == col[Len(col)]
         IN IF \E i \in DOMAIN u : u[i] = x THEN u ELSE Append(u, x)

Column(df, c) == [i \in DOMAIN df |-> df[i][c]]
Range(s) == {s[i] : i \in DOMAIN s}

RECURSIVE SeqSum(_)
SeqSum(s) == IF s = <<>> THEN 0 ELSE Head(s) + SeqSum(Tail(s))

\* Series.min() / Series.max() of a non-empty column of days.
SeriesMin(col) == CHOOSE m \in Range(col) : \A x \in Range(col) : m <= x
SeriesMax(col) == CHOOSE m \in Range(col) : \A x \in Range(col) : m >= x

\* len(df[df[c] == v])
CountEq(df, c, v) == Len(BoolIndex(df, [i \in DOMAIN df |-> df[i][c] = v]))

\* Python's order of the category texts of the model (code point order).
LexRank(s) == CASE s = ""               -> 0
                [] s = "/"              -> 1
                [] s = "/blog"          -> 2
                [] s = "Accepté"        -> 3
                [] s = "BOAMP"          -> 4
                [] s = "Direct"         -> 5
                [] s = "FR"             -> 6
                [] s = "LinkedIn"       -> 7
                [] s = "MA"             -> 8
                [] s = "Meta Ads"       -> 9
                [] s = "Opportunité"    -> 10
                [] s = "Organic Search" -> 11
                [] s = "Refus"          -> 12
                [] s = "TED"            -> 13
                [] s = "Unknown"        -> 14
DayRank(d) == d

\* DataFrame.sort_values(c) with the default kind='quicksort', which is not a
\* stable sort: the rows in ascending order of column c, rows with equal
\* values in any order.
Orders(n) == {f \in [1..n -> 1..n] : \A i, j \in 1..n : i # j => f[i] # f[j]}
sort_values(df, c) ==
    {[i \in DOMAIN df |-> df[f[i]]] : f \in
        {g \in Orders(Len(df)) :
            \A i, j \in DOMAIN df : i < j => df[g[i]][c] <= df[g[j]][c]}}

\* groupby(key)[c].sum() for one key.
GroupSum(df, key, k, c) ==
    SeqSum(Column(BoolIndex(df, [i \in DOMAIN df |-> df[i][key] = k]), c))

\* `na` is the null of the column's type (None for text, NaT for days).
GroupKeysUnsorted(df, c, na) ==
    LET u == unique(Column(df, c)) IN
    BoolIndex(u, [i \in DOMAIN u |-> u[i] # na])

\* The keys of a groupby: the distinct non-null values of the column, sorted
\* ascending (groupby's defaults sort=True, dropna=True).  `days` tells a
\* column of days from a column of text.
GroupKeys(df, c, na, days) ==
    LET u == GroupKeysUnsorted(df, c, na)
        K == Range(u)
        Rank(k) == IF days THEN DayRank(k) ELSE LexRank(k)
    IN [i \in 1..Cardinality(K) |->
          CHOOSE k \in K : Cardinality({j \in K : Rank(j) < Rank(k)}) = i - 1]

(***************************************************************************)
(* The tender-tracking source: get_data (lines 155-169).                   *)
(***************************************************************************)
\* DataFrame.dropna(subset=...): the rows with no null cell in the subset
\* columns.  Only None/NaN is null; the empty text is a value like any other.
dropna(df, subset) ==
    BoolIndex(df, [i \in DOMAIN df |-> \A c \in subset : df[i][c] # None])

\* pd.to_datetime on one cell, default errors='raise': a date text gives its
\* day, the empty text gives NaT, any other text raises.
Parseable(s) == s \in DateText \/ s = ""
to_datetime(s) == IF s \in DateText THEN DayOf(s) ELSE NaT

\* pd.to_numeric(errors='coerce').fillna(fill) on one cell.
to_numeric_fillna(s, fill) == IF s \in NumText THEN NumOf(s) ELSE fill

\* NombreOf with a fault: the fallback of the other sources, 0.
NombreOfZero(s) == to_numeric_fillna(s, 0)

\* The Nombre column of get_data: line 168.
NombreOf(s) == to_numeric_fillna(s, 1)

Raise(e)  == [ok |-> FALSE, error |-> e, df |-> <<>>]
Return(t) == [ok |-> TRUE, error |-> "", df |-> t]

\* get_data() on the records `data` read from the sheet.  pd.DataFrame([])
\* has no columns, so dropna(subset=['Date','Source']) raises KeyError.
get_data(data) ==
    IF data = <<>> THEN Raise("KeyError")
    ELSE LET d == dropna(data, {"Date", "Source"}) IN
         IF \E i \in DOMAIN d : ~Parseable(d[i].Date) THEN Raise("ValueError")
         ELSE Return([i \in DOMAIN d |->
                        [Date   |-> to_datetime(d[i].Date),
                         Source |-> d[i].Source,
                         Status |-> d[i].Status,
                         Nombre |-> NombreOf(d[i].Nombre)]])

(***************************************************************************)
(* The AO Dashboard page (lines 254-336).                                  *)
(***************************************************************************)
\* AOFilter with a fault: the end of the range excluded.
AOFilterEndExclusive(df, date_range, sources, status_list) ==
    IF Len(date_range) = 2
    THEN BoolIndex(df, [i \in DOMAIN df |->
                /\ df[i].Date >= date_range[1]
                /\ df[i].Date < date_range[2]
                /\ df[i].Source \in sources
                /\ df[i].Status \in status_list])
    ELSE df

\* Lines 267-272: the page's filter.
AOFilter(df, date_range, sources, status_list) ==
    IF Len(date_range) = 2
    THEN LET start_date == date_range[1]
             end_date   == date_range[2]
         IN BoolIndex(df, [i \in DOMAIN df |->
                /\ df[i].Date >= start_date
                /\ df[i].Date <= end_date
                /\ df[i].Source \in sources
                /\ df[i].Status \in status_list])
    ELSE df

\* A percentage, in tenths of a percent (the pages print one decimal).
\* `raised` is Python's ZeroDivisionError.
Percent(n, d) == IF d = 0 THEN [raised |-> TRUE, value |-> 0]
                 ELSE [raised |-> FALSE, value |-> (n * 1000) \div d]
Zero == [raised |-> FALSE, value |-> 0]

\* AOKpis with a fault: the accepted-to-opportunity rate without its guard.
AOKpisUnguarded(df_filtered) ==
    LET tot == Len(df_filtered) IN
    IF tot > 0
    THEN [rate_refus |-> Percent(CountEq(df_filtered, "Status", "Refus"), tot),
          rate_accep |-> Percent(CountEq(df_filtered, "Status", "Accepté"), tot),
          rate_opp   |-> Percent(CountEq(df_filtered, "Status", "Opportunité"),
                                 CountEq(df_filtered, "Status", "Accepté"))]
    ELSE [rate_refus |-> Zero, rate_accep |-> Zero, rate_opp |-> Zero]

\* Lines 290-296: the conversion KPIs.
AOKpis(df_filtered) ==
    LET tot         == Len(df_filtered)
        count_accep == CountEq(df_filtered, "Status", "Accepté")
    IN IF tot > 0
       THEN [rate_refus |-> Percent(CountEq(df_filtered, "Status", "Refus"), tot),
             rate_accep |-> Percent(CountEq(df_filtered, "Status", "Accepté"), tot),
             rate_opp   |-> IF count_accep > 0
                            THEN Percent(CountEq(df_filtered, "Status", "Opportunité"),
                                         count_accep)
                            ELSE Zero]
       ELSE [rate_refus |-> Zero, rate_accep |-> Zero, rate_opp |-> Zero]

\* AOSourceCounts with a fault: the rows with an empty Source left out.
AOSourceCountsDropEmpty(df_filtered) ==
    LET keys == GroupKeys(df_filtered, "Source", "", FALSE) IN
    [k \in DOMAIN keys |->
        [Source |-> keys[k],
         Nombre |-> Cardinality({i \in DOMAIN df_filtered :
                                    df_filtered[i].Source = keys[k]})]]

\* Lines 305-307: df_filtered.groupby("Source")["Nombre"].count().reset_index()
AOSourceCounts(df_filtered) ==
    LET keys == GroupKeys(df_filtered, "Source", None, FALSE) IN
    [k \in DOMAIN keys |->
        [Source |-> keys[k],
         Nombre |-> Cardinality({i \in DOMAIN df_filtered :
                                    df_filtered[i].Source = keys[k]})]]

\* AOTimeline with a fault: the dates in order of first appearance (sort=False).
AOTimelineFirstSeen(df_filtered) ==
    LET keys == GroupKeysUnsorted(df_filtered, "Date", NaT) IN
    [k \in DOMAIN keys |->
        [Date   |-> keys[k],
         counts |-> Cardinality({i \in DOMAIN df_filtered :
                                    df_filtered[i].Date = keys[k]})]]

\* Line 335: df_filtered.groupby('Date').size().reset_index(name='counts')
AOTimeline(df_filtered) ==
    LET keys == GroupKeys(df_filtered, "Date", NaT, TRUE) IN
    [k \in DOMAIN keys |->
        [Date   |-> keys[k],
         counts |-> Cardinality({i \in DOMAIN df_filtered :
                                    df_filtered[i].Date = keys[k]})]]

\* The values st.sidebar.date_input returns for a range control that starts
\* with a pair and is bounded by min_value and max_value: one day while the
\* user is picking the range, else a pair in order.
DateInputs(min_d, max_d) ==
    LET D == min_d..max_d IN
    {<<a>> : a \in D} \cup {p \in D \X D : p[1] <= p[2]}

\* Line 278: datetime.now().date(), the day of the executions modelled
\* (2024-01-03).
today_dt == 3

\* Lines 279-286: the metrics of the current day, on the rows of `table` dated
\* today_dt.
AOToday(df) ==
    LET df_today == BoolIndex(df, [i \in DOMAIN df |-> df[i].Date = today_dt]) IN
    [scraped |-> SeqSum(Column(df_today, "Nombre")),
     accepte |-> CountEq(df_today, "Status", "Accepté"),
     refus   |-> CountEq(df_today, "Status", "Refus"),
     opp     |-> CountEq(df_today, "Status", "Opportunité")]

\* AOBody with a fault: the metrics of the current day taken from the filtered
\* table.
AOBodyTodayFiltered(df, date_range, sources, status_list) ==
    LET df_filtered == AOFilter(df, date_range, sources, status_list) IN
    [df          |-> df,
     min_d       |-> SeriesMin(Column(df, "Date")),
     max_d       |-> SeriesMax(Column(df, "Date")),
     date_range  |-> date_range,
     sources     |-> sources,
     status_list |-> status_list,
     df_filtered |-> df_filtered,
     total       |-> SeqSum(Column(df_filtered, "Nombre")),
     today       |-> AOToday(df_filtered),
     kpis        |-> AOKpis(df_filtered),
     fig_bar     |-> AOSourceCounts(df_filtered),
     df_timeline |-> AOTimeline(df_filtered)]

\* The names bound by the page once the sidebar controls have their values
\* (lines 262-336).
AOBody(df, date_range, sources, status_list) ==
    LET df_filtered == AOFilter(df, date_range, sources, status_list) IN
    [df          |-> df,
     min_d       |-> SeriesMin(Column(df, "Date")),
     max_d       |-> SeriesMax(Column(df, "Date")),
     date_range  |-> date_range,
     sources     |-> sources,
     status_list |-> status_list,
     df_filtered |-> df_filtered,
     total       |-> SeqSum(Column(df_filtered, "Nombre")),
     today       |-> AOToday(df),
     kpis        |-> AOKpis(df_filtered),
     fig_bar     |-> AOSourceCounts(df_filtered),
     df_timeline |-> AOTimeline(df_filtered)]

NoLocals == [n \in {} |-> 0]
NoAnswer == [kind |-> "none", accepted |-> 0, opened |-> 0]
NoAnswers == [period |-> NoAnswer, today |-> NoAnswer]

KpiRaised(k) == k.rate_refus.raised \/ k.rate_accep.raised \/ k.rate_opp.raised

\* Lines 262-336 with the controls at the given values.
AORender(df, date_range, sources, status_list) ==
    /\ locals' = AOBody(df, date_range, sources, status_list)
    /\ outcome' = IF KpiRaised(locals'.kpis) THEN "exception" ELSE "rendered"


(***************************************************************************)
(* The mail-tracking source: get_mail_data (lines 171-206) and             *)
(* get_mailgun_stats (lines 209-221).                                      *)
(***************************************************************************)
HasColumn(records, c) == \E i \in DOMAIN records : c \in DOMAIN records[i]

\* Lines 191-199 and 200 on one worksheet that has a Date column.
MailSheetRows(ws) ==
    LET parsed == [i \in DOMAIN ws.records |->
                      [ws.records[i] EXCEPT !.Date = to_datetime(@)]]
        kept   == BoolIndex(parsed, [i \in DOMAIN parsed |-> parsed[i].Date # NaT])
    IN [i \in DOMAIN kept |->
          [Date          |-> kept[i].Date,
           Email         |-> kept[i].Email,
           Email_Envoye  |-> kept[i].Email_Envoye,
           Email_Reponse |-> kept[i].Email_Reponse,
           SheetName     |-> ws.title]]

\* Lines 185-206: the worksheets in order, each skipped when it is empty, has
\* no Date column or keeps no row; the kept ones concatenated.
RECURSIVE get_mail_data(_)
get_mail_data(worksheets) ==
    IF worksheets = <<>> THEN <<>>
    ELSE LET ws == Head(worksheets) IN
         (IF ws.records = <<>> \/ ~HasColumn(ws.records, "Date")
          THEN <<>>
          ELSE MailSheetRows(ws))
         \o get_mail_data(Tail(worksheets))

\* Lines 211-219, the body of the try, on the answer `res` of the statistics
\* endpoint: `raised` when a statement of the body raises (requests.get on a
\* network failure, the index [0] on an empty stats list), `returned` when
\* line 219 is reached.  A body with no stats entry reads totals of 0.
MailgunTry(res) ==
    IF res.kind \in {"raises", "empty stats"}
    THEN [raised |-> TRUE, returned |-> FALSE, rate |-> Zero, opens |-> 0]
    ELSE IF res.kind \in {"200", "no stats"}
    THEN LET acc  == IF res.kind = "200" THEN res.accepted ELSE 0
             ope  == IF res.kind = "200" THEN res.opened ELSE 0
             rate == IF acc > 0 THEN Percent(ope, acc) ELSE Zero
         IN [raised |-> FALSE, returned |-> TRUE, rate |-> rate, opens |-> ope]
    ELSE [raised |-> FALSE, returned |-> FALSE, rate |-> Zero, opens |-> 0]

\* get_mailgun_stats with a fault: no except clause around the body.
get_mailgun_statsNoExcept(res) ==
    LET t == MailgunTry(res) IN
    IF t.raised \/ t.returned
    THEN [raised |-> t.raised, rate |-> t.rate, opens |-> t.opens]
    ELSE [raised |-> FALSE, rate |-> Zero, opens |-> 0]

\* Lines 209-221: the bare except swallows whatever the body raises, and
\* line 221 returns (0, 0) when the body did not return.
get_mailgun_stats(res) ==
    LET t == MailgunTry(res) IN
    IF ~t.raised /\ t.returned
    THEN [raised |-> FALSE, rate |-> t.rate, opens |-> t.opens]
    ELSE [raised |-> FALSE, rate |-> Zero, opens |-> 0]

(***************************************************************************)
(* The Mail Tracking page (lines 339-402).                                 *)
(***************************************************************************)
\* Lines 357-366: the page's filter.
MailFilter(df_m, mail_date_range) ==
    IF Len(mail_date_range) = 2
    THEN LET start_m == mail_date_range[1]
             end_m   == mail_date_range[2]
         IN BoolIndex(df_m, [i \in DOMAIN df_m |->
                /\ df_m[i].Date >= start_m
                /\ df_m[i].Date <= end_m])
    ELSE df_m

\* Line 398: df_m_filtered.groupby('Date').size().reset_index(name='Volume')
MailTimeline(df_m_filtered) ==
    LET keys == GroupKeys(df_m_filtered, "Date", NaT, TRUE) IN
    [k \in DOMAIN keys |->
        [Date   |-> keys[k],
         Volume |-> Cardinality({i \in DOMAIN df_m_filtered :
                                    df_m_filtered[i].Date = keys[k]})]]

\* str.contains('Oui') and str.strip() on the cell texts of the model.
ContainsOui(s) == s \in {"Oui", "Oui (relance)"}
Strip(s) == IF s = " " THEN "" ELSE s

\* The counts of the page on a table: rows, rows sent, rows answered.
MailCounts(table) ==
    [contacts |-> Len(table),
     sent     |-> Len(BoolIndex(table, [i \in DOMAIN table |->
                        ContainsOui(table[i].Email_Envoye)])),
     replies  |-> Len(BoolIndex(table, [i \in DOMAIN table |->
                        Strip(table[i].Email_Reponse) # ""]))]

\* Lines 353-399 with the date control at the given value and the statistics
\* endpoint answering `res.period` to the request for the selected period
\* (lines 362 and 366) and `res.today` to the request for 24h (line 369).
MailBody(df_m, mail_date_range, res) ==
    LET df_m_filtered == MailFilter(df_m, mail_date_range)
        stats         == get_mailgun_stats(res.period)
        today_stats   == get_mailgun_stats(res.today)
        df_m_today    == BoolIndex(df_m, [i \in DOMAIN df_m |-> df_m[i].Date = today_dt])
    IN [df_m            |-> df_m,
        m_min           |-> SeriesMin(Column(df_m, "Date")),
        m_max           |-> SeriesMax(Column(df_m, "Date")),
        mail_date_range |-> mail_date_range,
        df_m_filtered   |-> df_m_filtered,
        open_rate       |-> stats.rate,
        opens           |-> stats.opens,
        today_rate      |-> today_stats.rate,
        today_opens     |-> today_stats.opens,
        stats_raised    |-> stats.raised \/ today_stats.raised,
        today           |-> MailCounts(df_m_today),
        contacts        |-> Len(df_m_filtered),
        sent            |-> Len(BoolIndex(df_m_filtered,
                                [i \in DOMAIN df_m_filtered |->
                                    ContainsOui(df_m_filtered[i].Email_Envoye)])),
        replies         |-> Len(BoolIndex(df_m_filtered,
                                [i \in DOMAIN df_m_filtered |->
                                    Strip(df_m_filtered[i].Email_Reponse) # ""])),
        mail_timeline   |-> MailTimeline(df_m_filtered)]

MailRender(df_m, mail_date_range, res) ==
    /\ locals' = MailBody(df_m, mail_date_range, res)
    /\ outcome' = IF \/ locals'.stats_raised
                     \/ locals'.open_rate.raised
                     \/ locals'.today_rate.raised
                  THEN "exception" ELSE "rendered"


(***************************************************************************)
(* The Google Analytics page (lines 534-664).                              *)
(***************************************************************************)
\* Lines 577-583: the metrics made numeric, the average session duration (in
\* thousandths of a second; inf and NaN replaced by 0).
GAMaster(rows) ==
    [i \in DOMAIN rows |->
        LET sessions == to_numeric_fillna(rows[i].sessions, 0)
            duration == to_numeric_fillna(rows[i].userEngagementDuration, 0)
        IN [date                       |-> rows[i].date,
            sessionDefaultChannelGroup |-> rows[i].sessionDefaultChannelGroup,
            country                    |-> rows[i].country,
            pagePath                   |-> rows[i].pagePath,
            activeUsers                |-> to_numeric_fillna(rows[i].activeUsers, 0),
            newUsers                   |-> to_numeric_fillna(rows[i].newUsers, 0),
            sessions                   |-> sessions,
            screenPageViews            |-> to_numeric_fillna(rows[i].screenPageViews, 0),
            userEngagementDuration     |-> duration,
            avgSessionDurationSec      |-> IF sessions = 0 THEN 0
                                           ELSE (duration * 1000) \div sessions]]

\* GAFilter with a fault: isin applied to every selection, empty or not.
GAFilterEmptySelectsNothing(df_master, selected_countries, selected_sources, selected_pages, session_duration_filter) ==
    LET f == BoolIndex(df_master, [i \in DOMAIN df_master |->
                 /\ df_master[i].country \in selected_countries
                 /\ df_master[i].sessionDefaultChannelGroup \in selected_sources
                 /\ df_master[i].pagePath \in selected_pages])
    IN IF session_duration_filter = "Sessions > 1 second"
       THEN BoolIndex(f, [i \in DOMAIN f |-> f[i].avgSessionDurationSec > 1000])
       ELSE f

\* Lines 599-608: the page's filter.  An empty selection leaves its column
\* unrestricted.
GAFilter(df_master, selected_countries, selected_sources, selected_pages, session_duration_filter) ==
    LET f1 == IF selected_countries # {}
              THEN BoolIndex(df_master, [i \in DOMAIN df_master |->
                       df_master[i].country \in selected_countries])
              ELSE df_master
        f2 == IF selected_sources # {}
              THEN BoolIndex(f1, [i \in DOMAIN f1 |->
                       f1[i].sessionDefaultChannelGroup \in selected_sources])
              ELSE f1
        f3 == IF selected_pages # {}
              THEN BoolIndex(f2, [i \in DOMAIN f2 |-> f2[i].pagePath \in selected_pages])
              ELSE f2
    IN IF session_duration_filter = "Sessions > 1 second"
       THEN BoolIndex(f3, [i \in DOMAIN f3 |-> f3[i].avgSessionDurationSec > 1000])
       ELSE f3

\* Line 618: the returning rate.
GAReturnRate(df_filtered) ==
    LET t_u == SeqSum(Column(df_filtered, "activeUsers")) IN
    IF t_u > 0
    THEN Percent(t_u - SeqSum(Column(df_filtered, "newUsers")), t_u)
    ELSE Zero

\* Lines 636-637: groupby("date_dt")["activeUsers"].sum().reset_index()
GATimeline(df_filtered) ==
    LET dated == [i \in DOMAIN df_filtered |->
                    [date_dt     |-> to_datetime(df_filtered[i].date),
                     activeUsers |-> df_filtered[i].activeUsers]]
        keys  == GroupKeys(dated, "date_dt", NaT, TRUE)
    IN [k \in DOMAIN keys |->
          [date_dt     |-> keys[k],
           activeUsers |-> GroupSum(dated, "date_dt", keys[k], "activeUsers")]]

\* Line 649: groupby("sessionDefaultChannelGroup")["sessions"].sum().reset_index()
GASources(df_filtered) ==
    LET keys == GroupKeys(df_filtered, "sessionDefaultChannelGroup", None, FALSE) IN
    [k \in DOMAIN keys |->
        [key   |-> keys[k],
         value |-> GroupSum(df_filtered, "sessionDefaultChannelGroup", keys[k], "sessions")]]

\* Line 654: groupby("pagePath")["screenPageViews"].sum().reset_index()
GAPages(df_filtered) ==
    LET keys == GroupKeys(df_filtered, "pagePath", None, FALSE) IN
    [k \in DOMAIN keys |->
        [key   |-> keys[k],
         value |-> GroupSum(df_filtered, "pagePath", keys[k], "screenPageViews")]]

\* GASourcesChart with a fault: the groups drawn as grouped, not sorted by value.
GASourcesChartUnsorted(df_filtered) == {GASources(df_filtered)}

\* Lines 650 and 655: the charts draw the groups sorted by value.
GASourcesChart(df_filtered) == sort_values(GASources(df_filtered), "value")
GAPagesChart(df_filtered)   == sort_values(GAPages(df_filtered), "value")

\* Lines 568-657 with the sidebar controls at the given values.
GARender(ga_range, df_master, selected_countries, selected_sources, selected_pages, session_duration_filter) ==
    LET df_filtered == GAFilter(df_master, selected_countries, selected_sources,
                                selected_pages, session_duration_filter)
    IN \E src_chart \in GASourcesChart(df_filtered) :
       \E pg_chart \in GAPagesChart(df_filtered) :
        /\ locals' = [ga_range                |-> ga_range,
                      df_master               |-> df_master,
                      selected_countries      |-> selected_countries,
                      selected_sources        |-> selected_sources,
                      selected_pages          |-> selected_pages,
                      session_duration_filter |-> session_duration_filter,
                      df_filtered             |-> df_filtered,
                      t_u      |-> SeqSum(Column(df_filtered, "activeUsers")),
                      ret_rate |-> GAReturnRate(df_filtered),
                      df_timeline |-> GATimeline(df_filtered),
                      df_src      |-> GASources(df_filtered),
                      src_chart   |-> src_chart,
                      pg_chart    |-> pg_chart]
        /\ outcome' = IF locals'.ret_rate.raised THEN "stopped" ELSE "rendered"


(***************************************************************************)
(* The Meta Ads page (lines 404-443) and get_fb_ads_data (lines 111-145).  *)
(***************************************************************************)
\* Lines 139-145: the insights as a table.  A field no insight carries is no
\* column of the table; a numeric column has 0 where the field is absent or
\* not a number.
get_fb_ads_data(insights) ==
    LET cols == {c \in {"ad_name", "spend", "impressions", "clicks"} :
                    \E i \in DOMAIN insights : insights[i][c] # None}
    IN [i \in DOMAIN insights |->
          [c \in cols |-> IF c = "ad_name" THEN insights[i][c]
                          ELSE to_numeric_fillna(insights[i][c], 0)]]

\* A quotient, in hundredths (the page prints two decimals).
Quotient(n, d) == IF d = 0 THEN [raised |-> TRUE, value |-> 0]
                  ELSE [raised |-> FALSE, value |-> (n * 100) \div d]

\* Line 422: the average cost per click.
AvgCPC(df_fb) ==
    IF SeqSum(Column(df_fb, "clicks")) > 0
    THEN Quotient(SeqSum(Column(df_fb, "spend")), SeqSum(Column(df_fb, "clicks")))
    ELSE Zero

\* Line 431: the spend chart draws the ads sorted by spend.
SpendChart(df_fb) == sort_values(df_fb, "spend")

\* Lines 410-443 with the date control at `fb_range`, the ads platform
\* answering `insights`.
MetaPage(fb_range, insights) ==
    IF Len(fb_range) # 2
    THEN /\ outcome' = "rendered"
         /\ locals' = [fb_range |-> fb_range]
    ELSE LET df_fb == get_fb_ads_data(insights) IN
         IF df_fb = <<>>
         THEN \* line 443: st.info
              /\ outcome' = "rendered"
              /\ locals' = [fb_range |-> fb_range, df_fb |-> df_fb]
         ELSE IF \E c \in {"spend", "impressions", "clicks"} : ~HasColumn(df_fb, c)
         THEN \* lines 419-422: KeyError
              /\ outcome' = "exception"
              /\ locals' = [fb_range |-> fb_range, df_fb |-> df_fb]
         ELSE \E fig_spend \in SpendChart(df_fb) :
              /\ locals' = [fb_range    |-> fb_range,
                            df_fb       |-> df_fb,
                            total_spend |-> SeqSum(Column(df_fb, "spend")),
                            clicks      |-> SeqSum(Column(df_fb, "clicks")),
                            avg_cpc     |-> AvgCPC(df_fb),
                            fig_spend   |-> fig_spend]
              /\ outcome' = IF locals'.avg_cpc.raised THEN "exception" ELSE "rendered"

(***************************************************************************)
(* The Financial Impact page (lines 445-529).                              *)
(***************************************************************************)
\* Lines 457-459: source and stage names, the expected revenue made numeric.
\* A many2one field is a pair (id, name), or False, read here as <<>>.
CleanLeads(leads) ==
    [i \in DOMAIN leads |->
        [id     |-> leads[i].id,
         name   |-> leads[i].name,
         source |-> IF leads[i].source_id # <<>> THEN leads[i].source_id[2] ELSE "Unknown",
         stage  |-> IF leads[i].stage_id # <<>> THEN leads[i].stage_id[2] ELSE "Unknown",
         expected_revenue |-> to_numeric_fillna(leads[i].expected_revenue, 0)]]

\* Lines 502-507: the left join of the invoices with the leads on
\* invoice_origin = name; an invoice no lead matches keeps a null source.
RECURSIVE MergeLeft(_, _)
MergeLeft(df_revenue, df_leads) ==
    IF df_revenue = <<>> THEN <<>>
    ELSE LET inv     == Head(df_revenue)
             matches == BoolIndex(df_leads, [i \in DOMAIN df_leads |->
                            df_leads[i].name = inv.invoice_origin])
         IN (IF matches = <<>>
             THEN <<[amount_total |-> inv.amount_total, source |-> None]>>
             ELSE [i \in DOMAIN matches |->
                     [amount_total |-> inv.amount_total, source |-> matches[i].source]])
            \o MergeLeft(Tail(df_revenue), df_leads)

\* Line 509: df_join.groupby('source')['amount_total'].sum().reset_index()
RevenueBySource(df_join) ==
    LET keys == GroupKeys(df_join, "source", None, FALSE) IN
    [k \in DOMAIN keys |->
        [source       |-> keys[k],
         amount_total |-> GroupSum(df_join, "source", keys[k], "amount_total")]]

\* Line 519: the ads spend, read from df_fb when the namespace `ns` of the
\* execution binds that name.
MetaSpend(ns) ==
    IF "df_fb" \in DOMAIN ns /\ HasColumn(ns.df_fb, "spend")
    THEN SeqSum(Column(ns.df_fb, "spend"))
    ELSE 0

\* Line 528: the return on the ads spend.
MetaROI(meta_revenue, meta_spend) ==
    IF meta_spend > 0
    THEN Percent(meta_revenue - meta_spend, meta_spend)
    ELSE Zero

\* Lines 448-529 on the leads and invoices read from the CRM, in an execution
\* whose namespace is `ns` when the page's branch starts.
FinancialPage(ns, leads, invoices) ==
    IF leads = <<>>
    THEN \* lines 450-452: st.warning, st.stop
         /\ outcome' = "stopped"
         /\ locals' = ns
    ELSE IF invoices = <<>>
    THEN \* line 461: an empty invoice table has no amount_total column
         /\ outcome' = "exception"
         /\ locals' = ns @@ [df_leads |-> CleanLeads(leads), df_revenue |-> <<>>]
    ELSE LET df_leads   == CleanLeads(leads)
             df_revenue == [i \in DOMAIN invoices |->
                              [amount_total   |-> to_numeric_fillna(invoices[i].amount_total, 0),
                               invoice_origin |-> invoices[i].invoice_origin]]
             by_source  == RevenueBySource(MergeLeft(df_revenue, df_leads))
             meta_spend == MetaSpend(ns)
             meta_revenue == SeqSum(Column(
                                BoolIndex(by_source, [i \in DOMAIN by_source |->
                                    by_source[i].source = "Meta Ads"]), "amount_total"))
         IN /\ locals' = ns @@
                  [df_leads          |-> df_leads,
                   df_revenue        |-> df_revenue,
                   total_pipeline    |-> SeqSum(Column(df_leads, "expected_revenue")),
                   total_revenue     |-> SeqSum(Column(df_revenue, "amount_total")),
                   revenue_by_source |-> by_source,
                   meta_spend        |-> meta_spend,
                   meta_pipeline     |-> GroupSum(df_leads, "source", "Meta Ads",
                                                  "expected_revenue"),
                   meta_revenue      |-> meta_revenue,
                   roi               |-> MetaROI(meta_revenue, meta_spend)]
            /\ outcome' = IF locals'.roi.raised THEN "exception" ELSE "rendered"

(***************************************************************************)
(* Inputs.                                                                 *)
(***************************************************************************)
\* Records get_all_records can return for the tender-tracking sheet.
AORecords ==
    {[Date |-> "2024-01-01", Source |-> "BOAMP", Status |-> "Accepté",     Nombre |-> "2"],
     [Date |-> "2024-01-03", Source |-> "TED",   Status |-> "Refus",       Nombre |-> "x"],
     [Date |-> "2024-01-03", Source |-> "",      Status |-> "Opportunité", Nombre |-> ""],
     [Date |-> "2024-01-01", Source |-> "TED",   Status |-> "Accepté",     Nombre |-> None],
     [Date |-> "2024-01-02", Source |-> None,    Status |-> "Refus",       Nombre |-> "1"],
     [Date |-> "N/A",        Source |-> "BOAMP", Status |-> "Refus",       Nombre |-> "1"],
     [Date |-> "",           Source |-> "TED",   Status |-> "Accepté",     Nombre |-> "1"],
     [Date |-> None,         Source |-> "BOAMP", Status |-> "Accepté",     Nombre |-> "1"]}

SeqsUpTo(S, n) == UNION {[1..k -> S] : k \in 0..n}

\* Records get_all_records can return for a worksheet of the mail-tracking
\* spreadsheet, and a record of a worksheet that has no Date column.
MailRecords ==
    {[Date |-> "2024-01-03", Email |-> "a@x.ma", Email_Envoye |-> "Oui", Email_Reponse |-> ""],
     [Date |-> "2024-01-01", Email |-> "b@x.ma", Email_Envoye |-> "Non", Email_Reponse |-> "Merci"],
     [Date |-> "N/A",        Email |-> "c@x.ma", Email_Envoye |-> "Oui (relance)", Email_Reponse |-> " "],
     [Date |-> "",           Email |-> "d@x.ma", Email_Envoye |-> "",    Email_Reponse |-> ""]}
NoDateRecord == [Email |-> "e@x.ma", Email_Envoye |-> "Oui", Email_Reponse |-> ""]
WorksheetTitles == <<"Prospects", "Relances">>
Workbooks ==
    {[i \in DOMAIN WorksheetTitles |-> [title |-> WorksheetTitles[i], records |-> r[i]]] :
        r \in [DOMAIN WorksheetTitles ->
                 SeqsUpTo(MailRecords, MaxMailRows) \cup {<<NoDateRecord>>}]}

\* Rows run_ga_report can return: every value is a text.
GARecords ==
    {[date |-> "20240103", sessionDefaultChannelGroup |-> "Organic Search",
      country |-> "FR", pagePath |-> "/blog", activeUsers |-> "1", newUsers |-> "1",
      sessions |-> "2", screenPageViews |-> "3", userEngagementDuration |-> "2"],
     [date |-> "20240101", sessionDefaultChannelGroup |-> "Direct",
      country |-> "MA", pagePath |-> "/blog", activeUsers |-> "2", newUsers |-> "1",
      sessions |-> "2", screenPageViews |-> "1", userEngagementDuration |-> "3"],
     [date |-> "20240101", sessionDefaultChannelGroup |-> "Direct",
      country |-> "FR", pagePath |-> "/", activeUsers |-> "0", newUsers |-> "0",
      sessions |-> "0", screenPageViews |-> "3", userEngagementDuration |-> "0"],
     [date |-> "20240102", sessionDefaultChannelGroup |-> "Organic Search",
      country |-> "MA", pagePath |-> "/", activeUsers |-> "3", newUsers |-> "0",
      sessions |-> "1", screenPageViews |-> "", userEngagementDuration |-> "3"]}

\* Insights the ads platform can return; it leaves out a field that has no
\* value for an ad.
AdsInsights ==
    {[ad_name |-> "Promo",    spend |-> "2",  impressions |-> "3", clicks |-> "1"],
     [ad_name |-> "Brand",    spend |-> "2",  impressions |-> "3", clicks |-> None],
     [ad_name |-> "Retarget", spend |-> None, impressions |-> "0", clicks |-> None],
     [ad_name |-> "Launch",   spend |-> "1",  impressions |-> "2", clicks |-> "0"]}

\* Leads and posted invoices the CRM can return.
CrmLeads ==
    {[id |-> 1, name |-> "S001", source_id |-> <<3, "Meta Ads">>, stage_id |-> <<1, "New">>,
      expected_revenue |-> "2"],
     [id |-> 2, name |-> "S002", source_id |-> <<>>, stage_id |-> <<2, "Won">>,
      expected_revenue |-> "3"],
     [id |-> 3, name |-> "S001", source_id |-> <<4, "LinkedIn">>, stage_id |-> <<>>,
      expected_revenue |-> "1"]}
CrmInvoices ==
    {[amount_total |-> "3", invoice_origin |-> "S001"],
     [amount_total |-> "2", invoice_origin |-> "S002"],
     [amount_total |-> "1", invoice_origin |-> None]}
NoCrm == [leads |-> <<>>, invoices |-> <<>>]

\* Answers of the Mailgun statistics endpoint: the request raises, a status
\* other than 200, a body whose stats list is empty, a body with no stats
\* entry, a body with totals (nothing accepted; accepted with and without an
\* opened message).
MailgunAnswers ==
    {[kind |-> k, accepted |-> 0, opened |-> 0] :
        k \in {"raises", "500", "empty stats", "no stats"}}
    \cup {[kind |-> "200", accepted |-> 0, opened |-> 1]}
    \cup {[kind |-> "200", accepted |-> 2, opened |-> o] : o \in {0, 1}}

\* Answers to the request for 24h (line 369): the request raises, or totals
\* with an opened message.
MailgunTodayAnswers ==
    {[kind |-> "raises", accepted |-> 0, opened |-> 0],
     [kind |-> "200", accepted |-> 2, opened |-> 1]}

Pages == {"Home", "AO Dashboard", "Mail Tracking", "Google Analytics", "Meta Ads",
          "Financial Impact"}

(***************************************************************************)
(* The script.  Selecting a page in the sidebar (line 246) starts an       *)
(* execution with an empty namespace; the page's branch then runs.         *)
(***************************************************************************)
\* Streamlit executes the script in a new namespace on every run: none of the
\* names the previous execution bound is defined when a branch starts, so the
\* test 'df_fb' in locals() of line 519 sees only the names of this run.
ScriptNamespaceKept(previous) == previous

ScriptNamespace(previous) == NoLocals

Init ==
    /\ page = "Home"
    /\ outcome = "rendered"
    /\ sheet = <<>>
    /\ workbook = <<>>
    /\ mailgun = NoAnswers
    /\ report = <<>>
    /\ ads = <<>>
    /\ crm = NoCrm
    /\ locals = NoLocals

\* Line 246: the user selects a page; the script starts over.
Select ==
    \E p \in Pages :
        /\ page' = p
        /\ outcome' = IF p = "Home" THEN "rendered" ELSE "running"
        /\ sheet' = <<>>
        /\ workbook' = <<>>
        /\ mailgun' = NoAnswers
        /\ report' = <<>>
        /\ ads' = <<>>
        /\ crm' = NoCrm
        /\ locals' = ScriptNamespace(locals)

\* Lines 254-336, first display: the sheet is read and normalized, the sidebar
\* controls take their default values.
AOLoad ==
    /\ page = "AO Dashboard"
    /\ outcome = "running"
    /\ UNCHANGED <<page, workbook, mailgun, report, ads, crm>>
    /\ \E data \in SeqsUpTo(AORecords, MaxRows) :
        LET r == get_data(data) IN
        /\ sheet' = data
        /\ IF ~r.ok
           THEN \* lines 257-258: st.error, st.stop
                /\ outcome' = "stopped"
                /\ locals' = NoLocals
           ELSE IF r.df = <<>> \/ \E i \in DOMAIN r.df : r.df[i].Date = NaT
           THEN \* lines 262-263: min()/max() of a column with no day, or of
                \* days mixed with NaT, yield no date for the control
                /\ outcome' = "exception"
                /\ locals' = [df |-> r.df]
           ELSE AORender(r.df,
                         <<SeriesMin(Column(r.df, "Date")),
                           SeriesMax(Column(r.df, "Date"))>>,
                         Range(unique(Column(r.df, "Source"))),
                         Range(unique(Column(r.df, "Status"))))

\* The user changes one sidebar control of the AO Dashboard page; get_data is
\* memoized (line 155), so the rerun works on the same table.
AORerun ==
    /\ page = "AO Dashboard"
    /\ outcome = "rendered"
    /\ UNCHANGED <<page, sheet, workbook, mailgun, report, ads, crm>>
    /\ \/ \E date_range \in DateInputs(locals.min_d, locals.max_d) :
            AORender(locals.df, date_range, locals.sources, locals.status_list)
       \/ \E sources \in SUBSET Range(unique(Column(locals.df, "Source"))) :
            AORender(locals.df, locals.date_range, sources, locals.status_list)
       \/ \E status_list \in SUBSET Range(unique(Column(locals.df, "Status"))) :
            AORender(locals.df, locals.date_range, locals.sources, status_list)

\* Lines 339-402, first display: every worksheet is read, the date control
\* takes its default value.
MailLoad ==
    /\ page = "Mail Tracking"
    /\ outcome = "running"
    /\ UNCHANGED <<page, sheet, report, ads, crm>>
    /\ \E wb \in Workbooks :
        LET df_m == get_mail_data(wb) IN
        /\ workbook' = wb
        /\ IF df_m = <<>>
           THEN \* lines 344-346: st.warning, st.stop
                /\ outcome' = "stopped"
                /\ mailgun' = NoAnswers
                /\ locals' = NoLocals
           ELSE \E res \in [period : MailgunAnswers, today : MailgunTodayAnswers] :
                /\ mailgun' = res
                /\ MailRender(df_m,
                              <<SeriesMin(Column(df_m, "Date")),
                                SeriesMax(Column(df_m, "Date"))>>,
                              res)

\* The user changes the date control of the Mail Tracking page, or reruns the
\* page and Mailgun answers its two requests anew; get_mail_data is memoized
\* (line 171).
MailRerun ==
    /\ page = "Mail Tracking"
    /\ outcome = "rendered"
    /\ UNCHANGED <<page, sheet, workbook, report, ads, crm>>
    /\ \/ \E mail_date_range \in DateInputs(locals.m_min, locals.m_max) :
            /\ mailgun' = mailgun
            /\ MailRender(locals.df_m, mail_date_range, mailgun)
       \/ \E res \in MailgunAnswers :
            /\ mailgun' = [mailgun EXCEPT !.period = res]
            /\ MailRender(locals.df_m, locals.mail_date_range, mailgun')
       \/ \E res \in MailgunTodayAnswers :
            /\ mailgun' = [mailgun EXCEPT !.today = res]
            /\ MailRender(locals.df_m, locals.mail_date_range, mailgun')

\* Lines 534-664 with the date control at `ga_range` and the report answering
\* `rows`; the refining controls start empty, on "All sessions".
GAPage(ga_range, rows) ==
    IF Len(ga_range) # 2
    THEN \* line 546: nothing is fetched, nothing is drawn
         /\ report' = <<>>
         /\ outcome' = "rendered"
         /\ locals' = [ga_range |-> ga_range]
    ELSE /\ report' = rows
         /\ IF rows = <<>>
            THEN \* lines 565-566: st.warning
                 /\ outcome' = "rendered"
                 /\ locals' = [ga_range |-> ga_range, df_master |-> <<>>]
            ELSE GARender(ga_range, GAMaster(rows), {}, {}, {}, "All sessions")

\* First display of the Google Analytics page, or the user completes a range
\* in its date control: the report is run for the range.
GALoad ==
    /\ page = "Google Analytics"
    /\ \/ outcome = "running"
       \/ outcome = "rendered" /\ Len(locals.ga_range) = 1
    /\ UNCHANGED <<page, sheet, workbook, mailgun, ads, crm>>
    /\ \E rows \in SeqsUpTo(GARecords, MaxGARows) : GAPage(<<1, 3>>, rows)

\* The user clicks the first day of a new range in the date control: until the
\* second click the control holds one day.
GAPick ==
    /\ page = "Google Analytics"
    /\ outcome = "rendered"
    /\ Len(locals.ga_range) = 2
    /\ UNCHANGED <<page, sheet, workbook, mailgun, ads, crm>>
    /\ GAPage(<<1>>, <<>>)

\* The user changes one refining control of the Google Analytics page.
GARerun ==
    /\ page = "Google Analytics"
    /\ outcome = "rendered"
    /\ "df_filtered" \in DOMAIN locals
    /\ UNCHANGED <<page, sheet, workbook, mailgun, report, ads, crm>>
    /\ LET m == locals.df_master IN
       \/ \E c \in SUBSET Range(Column(m, "country")) :
            GARender(locals.ga_range, m, c, locals.selected_sources,
                     locals.selected_pages, locals.session_duration_filter)
       \/ \E c \in SUBSET Range(Column(m, "sessionDefaultChannelGroup")) :
            GARender(locals.ga_range, m, locals.selected_countries, c,
                     locals.selected_pages, locals.session_duration_filter)
       \/ \E c \in SUBSET Range(Column(m, "pagePath")) :
            GARender(locals.ga_range, m, locals.selected_countries,
                     locals.selected_sources, c, locals.session_duration_filter)
       \/ \E c \in {"All sessions", "Sessions > 1 second"} :
            GARender(locals.ga_range, m, locals.selected_countries,
                     locals.selected_sources, locals.selected_pages, c)

\* First display of the Meta Ads page, or the user completes a range in its
\* date control: the insights are fetched for the range.
MetaLoad ==
    /\ page = "Meta Ads"
    /\ \/ outcome = "running"
       \/ outcome = "rendered" /\ Len(locals.fb_range) = 1
    /\ UNCHANGED <<page, sheet, workbook, mailgun, report, crm>>
    /\ \E insights \in SeqsUpTo(AdsInsights, MaxAds) :
        /\ ads' = insights
        /\ MetaPage(<<1, 3>>, insights)

\* The user clicks the first day of a new range in the date control.
MetaPick ==
    /\ page = "Meta Ads"
    /\ outcome = "rendered"
    /\ Len(locals.fb_range) = 2
    /\ UNCHANGED <<page, sheet, workbook, mailgun, report, crm>>
    /\ ads' = <<>>
    /\ MetaPage(<<1>>, <<>>)

\* The Financial Impact page: the CRM is read; the branch starts with the
\* namespace the execution has at line 445.
Financial ==
    /\ page = "Financial Impact"
    /\ outcome = "running"
    /\ UNCHANGED <<page, sheet, workbook, mailgun, report, ads>>
    /\ \E leads \in SeqsUpTo(CrmLeads, MaxLeads) :
       \E invoices \in SeqsUpTo(CrmInvoices, MaxInvoices) :
        /\ crm' = [leads |-> leads, invoices |-> invoices]
        /\ FinancialPage(locals, leads, invoices)

Next == Select \/ AOLoad \/ AORerun \/ MailLoad \/ MailRerun \/ GALoad \/ GAPick \/ GARerun
        \/ MetaLoad \/ MetaPick \/ Financial

Spec == Init /\ [][Next]_vars

(***************************************************************************)
(* Properties.                                                             *)
(***************************************************************************)
\* The rows of table t at the indices I, in the order of t.
Rows(t, I) ==
    [k \in 1..Cardinality(I) |->
        t[CHOOSE i \in I : Cardinality({j \in I : j < i}) = k - 1]]

AOShown    == page = "AO Dashboard" /\ outcome = "rendered"
MailShown  == page = "Mail Tracking" /\ outcome = "rendered"
GAShown    == page = "Google Analytics" /\ outcome = "rendered"
                /\ "df_filtered" \in DOMAIN locals
MetaShown  == page = "Meta Ads" /\ outcome = "rendered" /\ "fig_spend" \in DOMAIN locals

\* The columns of the Google Analytics page a selection constrains.
GAAllowed(row) ==
    /\ locals.selected_countries # {} => row.country \in locals.selected_countries
    /\ locals.selected_sources # {} =>
          row.sessionDefaultChannelGroup \in locals.selected_sources
    /\ locals.selected_pages # {} => row.pagePath \in locals.selected_pages

\* C1: with a complete range [start, end] the filtered table is exactly the
\* rows whose date lies in the range, bounds included, and whose value in every
\* constrained column is one of the selected values, in input order (AO page:
\* Source and Status; Mail page: the range alone; Google Analytics page: the
\* columns with a selection).
C1_FilterKeepsExactlyMatchingRows ==
    /\ (AOShown /\ Len(locals.date_range) = 2) =>
          locals.df_filtered =
              Rows(locals.df, {i \in DOMAIN locals.df :
                  /\ locals.date_range[1] <= locals.df[i].Date
                  /\ locals.df[i].Date <= locals.date_range[2]
                  /\ locals.df[i].Source \in locals.sources
                  /\ locals.df[i].Status \in locals.status_list})
    /\ (MailShown /\ Len(locals.mail_date_range) = 2) =>
          locals.df_m_filtered =
              Rows(locals.df_m, {i \in DOMAIN locals.df_m :
                  /\ locals.mail_date_range[1] <= locals.df_m[i].Date
                  /\ locals.df_m[i].Date <= locals.mail_date_range[2]})
    /\ (GAShown /\ locals.session_duration_filter = "All sessions") =>
          locals.df_filtered =
              Rows(locals.df_master, {i \in DOMAIN locals.df_master :
                  GAAllowed(locals.df_master[i])})

\* C1 witness: a two-row table on the AO page of which the filter keeps one
\* row; the other is inside the range with a selected Status and is dropped
\* for its Source alone.
C1_Witness ==
    /\ AOShown
    /\ Len(locals.date_range) = 2
    /\ Len(locals.df) = 2
    /\ Len(locals.df_filtered) = 1
    /\ \E i \in DOMAIN locals.df :
          /\ locals.date_range[1] <= locals.df[i].Date
          /\ locals.df[i].Date <= locals.date_range[2]
          /\ locals.df[i].Status \in locals.status_list
          /\ locals.df[i].Source \notin locals.sources

\* C2: when the date control holds a single day, the kept rows are exactly
\* those on or after that day whose Source and Status are selected (the
\* missing bound is unbounded).
C2_MissingBoundIsUnbounded ==
    /\ (AOShown /\ Len(locals.date_range) = 1) =>
          locals.df_filtered =
              Rows(locals.df, {i \in DOMAIN locals.df :
                  /\ locals.date_range[1] <= locals.df[i].Date
                  /\ locals.df[i].Source \in locals.sources
                  /\ locals.df[i].Status \in locals.status_list})
    /\ (MailShown /\ Len(locals.mail_date_range) = 1) =>
          locals.df_m_filtered =
              Rows(locals.df_m, {i \in DOMAIN locals.df_m :
                  locals.mail_date_range[1] <= locals.df_m[i].Date})

\* C3: a filter with no date bound and nothing selected in any categorical
\* control returns the table unchanged.
C3_EmptyFilterIsIdentity ==
    (/\ GAShown
     /\ locals.selected_countries = {}
     /\ locals.selected_sources = {}
     /\ locals.selected_pages = {}
     /\ locals.session_duration_filter = "All sessions")
    => locals.df_filtered = locals.df_master

\* C3 witness: the Google Analytics page shows a two-row report with every
\* selection empty.
C3_Witness ==
    /\ GAShown
    /\ Len(locals.df_master) = 2
    /\ locals.selected_countries = {}
    /\ locals.selected_sources = {}
    /\ locals.selected_pages = {}
    /\ locals.session_duration_filter = "All sessions"
    /\ Len(locals.df_filtered) = 2

\* The records of the mail workbook that have a Date cell, worksheet after
\* worksheet.
RECURSIVE MailRaw(_)
MailRaw(worksheets) ==
    IF worksheets = <<>> THEN <<>>
    ELSE (IF HasColumn(Head(worksheets).records, "Date")
          THEN Head(worksheets).records ELSE <<>>)
         \o MailRaw(Tail(worksheets))

\* C4: a row whose date cannot be parsed is left out of the normalized table,
\* every other row survives in input order, and the failure is never fatal:
\* get_data returns a table for a sheet that holds a row with a valid date, and
\* the mail table is the rows with a valid date.
C4_UnparsableDateIsExcludedNotFatal ==
    /\ (/\ page = "AO Dashboard"
        /\ outcome # "running"
        /\ \E i \in DOMAIN sheet : sheet[i].Date \in DateText /\ sheet[i].Source # None)
       => /\ outcome # "stopped"
          /\ "df" \in DOMAIN locals
    /\ MailShown =>
          Column(locals.df_m, "Email") =
              Column(Rows(MailRaw(workbook),
                          {i \in DOMAIN MailRaw(workbook) :
                              MailRaw(workbook)[i].Date \in DateText}), "Email")

\* The rows of the tender sheet that get_data keeps, in order.
AOKeptRecords ==
    Rows(sheet, {i \in DOMAIN sheet : sheet[i].Date # None /\ sheet[i].Source # None})

NumericColumns == {"spend", "impressions", "clicks"}
GAMetrics == {"activeUsers", "newUsers", "sessions", "screenPageViews",
              "userEngagementDuration"}

C6_RequiredFieldsPresent ==
    (page = "AO Dashboard" /\ "df" \in DOMAIN locals) =>
        Len(locals.df) =
            Cardinality({i \in DOMAIN sheet : /\ sheet[i].Date \notin {None, ""}
                                              /\ sheet[i].Source \notin {None, ""}})

\* C7: no ratio raises a division error, and a ratio is 0 whenever its
\* denominator is 0.
C7_RatioIsZeroOnZeroDenominator ==
    /\ (page = "AO Dashboard" /\ "kpis" \in DOMAIN locals) =>
          /\ ~KpiRaised(locals.kpis)
          /\ Len(locals.df_filtered) = 0 =>
                locals.kpis.rate_refus = Zero /\ locals.kpis.rate_accep = Zero
          /\ CountEq(locals.df_filtered, "Status", "Accepté") = 0 =>
                locals.kpis.rate_opp = Zero
    /\ (page = "Mail Tracking" /\ "open_rate" \in DOMAIN locals) =>
          /\ ~locals.open_rate.raised /\ ~locals.today_rate.raised
          /\ mailgun.period.accepted = 0 => locals.open_rate = Zero
          /\ mailgun.today.accepted = 0 => locals.today_rate = Zero
    /\ (page = "Meta Ads" /\ "avg_cpc" \in DOMAIN locals) =>
          /\ ~locals.avg_cpc.raised
          /\ locals.clicks = 0 => locals.avg_cpc = Zero
    /\ (page = "Financial Impact" /\ "roi" \in DOMAIN locals) =>
          /\ ~locals.roi.raised
          /\ locals.meta_spend = 0 => locals.roi = Zero
    /\ (page = "Google Analytics" /\ "ret_rate" \in DOMAIN locals) =>
          /\ ~locals.ret_rate.raised
          /\ locals.t_u = 0 => locals.ret_rate = Zero

\* C7 witness: the AO page shows a filtered table with an opportunity and no
\* accepted row, so the accepted-to-opportunity rate has denominator 0.
C7_Witness ==
    /\ AOShown
    /\ CountEq(locals.df_filtered, "Status", "Opportunité") > 0
    /\ CountEq(locals.df_filtered, "Status", "Accepté") = 0
    /\ locals.kpis.rate_opp = Zero

\* C8: the per-group counts of a grouped aggregate sum to the number of rows
\* of the filtered table, each group appears once, and the rows with an empty
\* group value form a group of their own.
C8_GroupCountsSumToRows ==
    /\ AOShown =>
          /\ SeqSum(Column(locals.fig_bar, "Nombre")) = Len(locals.df_filtered)
          /\ SeqSum(Column(locals.df_timeline, "counts")) = Len(locals.df_filtered)
          /\ \A i, j \in DOMAIN locals.fig_bar :
                i # j => locals.fig_bar[i].Source # locals.fig_bar[j].Source
          /\ \A i \in DOMAIN locals.df_filtered :
                \E k \in DOMAIN locals.fig_bar :
                    locals.fig_bar[k].Source = locals.df_filtered[i].Source
    /\ MailShown =>
          SeqSum(Column(locals.mail_timeline, "Volume")) = Len(locals.df_m_filtered)

\* C8 witness: the AO page groups a filtered table that holds a row with an
\* empty Source and a row with a named one.
C8_Witness ==
    /\ AOShown
    /\ \E i, j \in DOMAIN locals.df_filtered :
          locals.df_filtered[i].Source = "" /\ locals.df_filtered[j].Source # ""
    /\ \E k \in DOMAIN locals.fig_bar : locals.fig_bar[k].Source = ""

\* A time series: strictly ascending dates, exactly the dates of the table.
IsTimeSeries(series, c, dates) ==
    /\ \A i, j \in DOMAIN series : i < j => series[i][c] < series[j][c]
    /\ {series[i][c] : i \in DOMAIN series} = dates

\* C9: a time series has one entry per distinct date of the filtered table,
\* in ascending order without duplicates, and no entry for a date that has no
\* record.
C9_TimeSeriesAscendingNoGapFill ==
    /\ AOShown =>
          IsTimeSeries(locals.df_timeline, "Date",
                       Range(Column(locals.df_filtered, "Date")))
    /\ MailShown =>
          IsTimeSeries(locals.mail_timeline, "Date",
                       Range(Column(locals.df_m_filtered, "Date")))
    /\ GAShown =>
          IsTimeSeries(locals.df_timeline, "date_dt",
                       {DayOf(locals.df_filtered[i].date) : i \in DOMAIN locals.df_filtered})

\* C9 witness: the AO page draws the timeline of a table whose rows are in
\* descending date order with a day between them that has no record.
C9_Witness ==
    /\ AOShown
    /\ Len(locals.df_filtered) = 2
    /\ locals.df_filtered[1].Date = 3
    /\ locals.df_filtered[2].Date = 1
    /\ Len(locals.df_timeline) = 2

\* The position at which key k is first seen in column c of table t.
FirstSeen(t, c, k) == CHOOSE i \in DOMAIN t : t[i][c] = k /\ \A j \in 1..(i - 1) : t[j][c] # k

Ascending(chart, c) == \A i, j \in DOMAIN chart : i < j => chart[i][c] <= chart[j][c]

C11_NoTableAborts ==
    /\ page = "Financial Impact" => outcome # "exception"
    /\ (/\ page = "AO Dashboard"
        /\ \A i \in DOMAIN sheet : sheet[i].Date \in DateText \cup {None})
       => outcome \notin {"stopped", "exception"}

\* C12: one page branch runs per execution and what a branch binds is not
\* visible in another page: each page's table is bound on its own page only,
\* and on the Financial Impact page df_fb is undefined, so the Meta spend and
\* the Meta ROI shown are 0.
C12_BranchDataNotShared ==
    /\ page # "AO Dashboard" => "df" \notin DOMAIN locals
    /\ page # "Mail Tracking" => "df_m" \notin DOMAIN locals
    /\ page # "Google Analytics" => "df_master" \notin DOMAIN locals
    /\ page # "Meta Ads" => "df_fb" \notin DOMAIN locals
    /\ page # "Financial Impact" => "df_leads" \notin DOMAIN locals
    /\ (page = "Financial Impact" /\ outcome = "rendered") =>
          /\ locals.meta_spend = 0
          /\ locals.roi = Zero

\* C12 witness: the Financial Impact page is shown with revenue attributed to
\* Meta Ads, a spend of 0 and an ROI of 0.
C12_Witness ==
    /\ page = "Financial Impact"
    /\ outcome = "rendered"
    /\ locals.meta_revenue > 0
    /\ locals.meta_spend = 0
    /\ locals.roi = Zero

\* The metrics of the current day as the pages show them, stated on the
\* unfiltered tables: the rows dated today_dt, whatever the controls hold.
TodayOnUnfilteredTable ==
    /\ AOShown =>
          LET T == {i \in DOMAIN locals.df : locals.df[i].Date = today_dt} IN
          /\ locals.today.scraped = SeqSum(Column(Rows(locals.df, T), "Nombre"))
          /\ locals.today.accepte =
                Cardinality({i \in T : locals.df[i].Status = "Accepté"})
          /\ locals.today.refus =
                Cardinality({i \in T : locals.df[i].Status = "Refus"})
          /\ locals.today.opp =
                Cardinality({i \in T : locals.df[i].Status = "Opportunité"})
    /\ MailShown =>
          LET T == {i \in DOMAIN locals.df_m : locals.df_m[i].Date = today_dt} IN
          /\ locals.today.contacts = Cardinality(T)
          /\ locals.today.sent =
                Cardinality({i \in T : ContainsOui(locals.df_m[i].Email_Envoye)})
          /\ locals.today.replies =
                Cardinality({i \in T : Strip(locals.df_m[i].Email_Reponse) # ""})

\* A rerun of a page on the same table (and, on the Mail page, with the same
\* answer to the request for 24h) shows the same metrics of the current day.
ControlsLeaveToday ==
    /\ (AOShown /\ AOShown' /\ locals'.df = locals.df) => locals'.today = locals.today
    /\ (MailShown /\ MailShown' /\ locals'.df_m = locals.df_m
            /\ mailgun'.today = mailgun.today)
       => /\ locals'.today = locals.today
          /\ locals'.today_rate = locals.today_rate
          /\ locals'.today_opens = locals.today_opens

\* C13: the metrics of the current day of the AO and Mail Tracking pages are
\* computed from the unfiltered table restricted to the current day, and a
\* change of the date range, of the Source selection or of the Status
\* selection leaves each of them unchanged.
C13_TodayMetricsIgnoreControls ==
    []TodayOnUnfilteredTable /\ [][ControlsLeaveToday]_vars

\* C13 witness: the AO page shows a table with a row of the current day that
\* the controls filter out, and counts it in the metrics of the current day.
C13_Witness ==
    /\ AOShown
    /\ Len(locals.date_range) = 2
    /\ \E i \in DOMAIN locals.df : locals.df[i].Date = today_dt
    /\ \A i \in DOMAIN locals.df_filtered : locals.df_filtered[i].Date # today_dt
    /\ locals.today.scraped > 0

\* The pair get_mailgun_stats returns for an answer of the endpoint: the rate
\* opened / accepted * 100 beside the opened total when the status is 200 and
\* a message was accepted, a rate of 0 beside the opened total when none was,
\* and (0, 0) for every other answer.
MailgunPair(res) ==
    IF res.kind = "200" /\ res.accepted > 0
    THEN [rate |-> [raised |-> FALSE, value |-> (res.opened * 1000) \div res.accepted],
          opens |-> res.opened]
    ELSE IF res.kind = "200"
    THEN [rate |-> Zero, opens |-> res.opened]
    ELSE [rate |-> Zero, opens |-> 0]

\* C14: get_mailgun_stats never raises, whatever the request does: the Mail
\* page never ends in an exception for it, and both of its calls return the
\* pair above.
C14_MailgunStatsNeverRaises ==
    (page = "Mail Tracking" /\ "open_rate" \in DOMAIN locals) =>
        /\ ~locals.stats_raised
        /\ outcome = "rendered"
        /\ locals.open_rate = MailgunPair(mailgun.period).rate
        /\ locals.opens = MailgunPair(mailgun.period).opens
        /\ locals.today_rate = MailgunPair(mailgun.today).rate
        /\ locals.today_opens = MailgunPair(mailgun.today).opens

\* C14 witness: the Mail page is shown after a request that raised and a
\* request answered with an empty stats list.
C14_Witness ==
    /\ MailShown
    /\ mailgun.today.kind = "raises"
    /\ mailgun.period.kind = "empty stats"
    /\ locals.open_rate = Zero
    /\ locals.opens = 0

====
